---------------------------- MODULE Spec2Model ----------------------------
(***************************************************************************)
(* Model of the LLM integration-test harness of mcp-server-excel:          *)
(*                                                                         *)
(*   - llm-tests/cli/conftest.py: the session-scoped autouse fixture       *)
(*     cli_daemon, which resolves excelcli.exe, launches                   *)
(*     `excelcli service run`, polls `excelcli -q service status` up to 20 *)
(*     times, yields the process to the tests and, after the session,      *)
(*     stops the daemon (graceful stop, wait, kill, reap).                 *)
(*   - llm-tests/conftest.py: _parse_cli_results, which decodes the JSON   *)
(*     results of the excel_execute tool calls of one agent run.           *)
(*                                                                         *)
(* The fixture is a generator; pc is its position.  The operating system   *)
(* (the daemon process, the outcome of each sub-process call) and pytest   *)
(* (which requests the fixture for the first CLI test, caches its value or *)
(* its exception for the session and runs the code after the yield when    *)
(* the session ends) are the environment.                                  *)
(***************************************************************************)
EXTENDS Integers, Sequences, FiniteSets, TLC

(***************************************************************************)
(* Bounds of the model and constants of the program.                       *)
(***************************************************************************)
\* number of CLI test functions collected in the session
NumScenarios == 2
\* largest number of agent turns (aitest_run calls) of one test function
MaxSteps == 2
\* `for i in range(20)` of cli_daemon
MaxAttempts == 20
\* largest number of lexemes of a tool result string
MaxRawLen == 3
\* largest number of tool calls of a transcript with several calls
MaxCalls == 2
\* largest number of characters of an args string and of a token
MaxArgLen == 2
\* largest number of calls of the parser and the validators on one result
MaxValidatorCalls == 2
\* largest number of assertions that follow one aitest_run call
MaxValidators == 2
\* number of characters of the text of a uuid (36 in the program)
UuidLen == 2
\* largest number of calls of unique_path and unique_results_path
MaxPaths == 2

VARIABLES
    \* ---- cli_daemon fixture and its daemon process
    pc,            \* position of the cli_daemon generator
    i,             \* loop variable of `for i in range(20)`
    exeExists,     \* excelcli.exe is present at the resolved path
    otherDaemon,   \* a daemon started before this session is serving
    procState,     \* "none" | "running" | "exited": the process of Popen
    returncode,    \* proc.returncode is set: the exit was observed
    killSent,      \* proc.kill() has been called
    spawnAttempts, \* calls of subprocess.Popen
    launches,      \* processes spawned by subprocess.Popen
    probes,        \* `service status` invocations
    sleeps,        \* time.sleep(0.5) calls
    readyAt,       \* number of the probe that broke the loop, 0 if none
    aliveAtReady,  \* the launched process was running at that probe
    stopCmds,      \* `service stop` invocations
    kills,         \* proc.kill() calls
    fixtureCalls,  \* calls of the cli_daemon fixture function
    \* ---- pytest session running the CLI tests
    cur,           \* number of the test being run, 0 before the first
    phase,         \* "idle" | "setup" | "body" | "validate"
    step,          \* number of the agent turn of the current test
    results,       \* outcome of each test
    stepsRun,      \* agent invocations (aitest_run calls) so far
    sessionOver,   \* pytest has left the run loop
    \* ---- one call of _parse_cli_results
    transcript,    \* the tool calls of the agent run, in order
    outputs,       \* the list _parse_cli_results returns
    parsePc,       \* "idle" | "called" | "returned" | "raised"
    parseError,    \* the exception it propagated, "none" if none
    \* ---- the validators applied to one agent result
    given,         \* the transcript as the agent run returned it
    token,         \* the token assert_cli_args_contain is called with
    prevOutputs,   \* the list the previous run of the parser returned
    parseRuns,     \* runs of _parse_cli_results so far
    callsMade,     \* calls of the parser and the validators so far
    lastCall,      \* the function called last, "none" before the first
    verdict,       \* how that call ended: the exception and what it carries
    \* ---- the body of the test function being run
    plan,          \* number of assertions after each aitest_run call of it
    messages,      \* its local `messages`: None or the messages of a result
    result,        \* its local `result`: the result of an agent run
    asserted,      \* assertions evaluated after the current call
    sent,          \* its aitest_run calls: messages passed, result returned
    evals,         \* its assertions evaluated: the turn, the result they saw
    failure,       \* the exception that ended it: the turn and who raised
    nextId,        \* number of the next agent result of the session
    \* ---- what is fixed before the run
    xfail,         \* the test being run is marked xfail(strict=False)
    response,      \* result.final_response of the agent run under validation
    pattern,       \* the pattern a test passes to assert_regex
    \* ---- what pytest keeps of the tests that did not pass
    failureLog,    \* set-up errors and failed assertions: in a marked test or not
    testsfailed,   \* session.testsfailed > 0: a report was failed or error
    \* ---- unique_path and unique_results_path
    tempDir,       \* the directory TEMP (or tempfile.gettempdir()) names
    issued,        \* the values uuid.uuid4() has returned
    paths,         \* the paths returned so far, in call order
    \* ---- what the fixture's calls on the daemon gave
    lastProbe,     \* the outcome of the latest `service status` probe
    callLog        \* the stop command, the waits and the kills, in call order

daemonVars == <<pc, i, exeExists, otherDaemon, procState, returncode, killSent,
                spawnAttempts, launches, probes, sleeps, readyAt, aliveAtReady,
                stopCmds, kills, fixtureCalls>>
sessionVars == <<cur, phase, step, results, stepsRun, sessionOver>>
parseVars == <<transcript, outputs, parsePc, parseError, given, token,
               prevOutputs, parseRuns, callsMade, lastCall, verdict>>
runnerVars == <<plan, messages, result, asserted, sent, evals, failure, nextId>>
inputVars == <<xfail, response, pattern>>
reportVars == <<failureLog, testsfailed>>
pathVars == <<tempDir, issued, paths>>
historyVars == <<lastProbe, callLog>>
vars == <<daemonVars, sessionVars, parseVars, runnerVars, inputVars, reportVars,
          pathVars, historyVars>>

Scenarios == 1..NumScenarios

PcValues == {"unrequested", "resolve", "popen", "probe", "sleep", "exhausted",
             "raise", "launch_error", "startup_failed", "yielded",
             "stop_cmd", "wait_exit", "kill", "reap", "stopped",
             "teardown_raised"}

(***************************************************************************)
(* The lifecycle state the supervisor is in at each position of the        *)
(* fixture.  A launch error leaves the process unstarted: no process       *)
(* exists.  A teardown that raised never confirmed the exit.               *)
(***************************************************************************)
Lifecycle ==
    CASE pc \in {"unrequested", "resolve", "popen", "launch_error"} -> "unstarted"
      [] pc \in {"probe", "sleep", "exhausted", "raise"} -> "starting"
      [] pc = "startup_failed" -> "failed"
      [] pc = "yielded" -> "ready"
      [] pc \in {"stop_cmd", "wait_exit", "kill", "reap", "teardown_raised"} -> "stopping"
      [] pc = "stopped" -> "stopped"

(***************************************************************************)
(* Initial state: the session has collected its tests, nothing has run.    *)
(* Whether the executable was built and whether another daemon is already  *)
(* serving are facts of the machine the session runs on.                   *)
(***************************************************************************)
\* no status probe has been made
NoProbe == [kind |-> "none", rc |-> 1, marker |-> FALSE]

DaemonInit ==
    /\ pc = "unrequested"
    /\ i = 0
    /\ exeExists \in BOOLEAN
    /\ otherDaemon \in BOOLEAN
    /\ procState = "none"
    /\ returncode = FALSE
    /\ killSent = FALSE
    /\ spawnAttempts = 0
    /\ launches = 0
    /\ probes = 0
    /\ sleeps = 0
    /\ readyAt = 0
    /\ aliveAtReady = FALSE
    /\ stopCmds = 0
    /\ kills = 0
    /\ fixtureCalls = 0
    /\ lastProbe = NoProbe
    /\ callLog = <<>>

SessionInit ==
    /\ cur = 0
    /\ phase = "idle"
    /\ step = 0
    /\ results = [t \in Scenarios |-> "pending"]
    /\ stepsRun = 0
    /\ sessionOver = FALSE

(***************************************************************************)
(* cli_daemon, set-up half.                                                *)
(***************************************************************************)
\* variant of ResolveCliExe: the path is returned without `if exe.exists()`
ResolveCliExeUnchecked ==
    /\ pc = "resolve"
    /\ pc' = "popen"
    /\ UNCHANGED <<i, exeExists, otherDaemon, procState, returncode, killSent,
                   spawnAttempts, launches, probes, sleeps, readyAt,
                   aliveAtReady, stopCmds, kills, fixtureCalls>>
    /\ UNCHANGED sessionVars
    /\ UNCHANGED parseVars
    /\ UNCHANGED historyVars
    /\ UNCHANGED pathVars
    /\ UNCHANGED reportVars
    /\ UNCHANGED inputVars
    /\ UNCHANGED runnerVars

\* _resolve_cli_exe: return the path if it exists, else FileNotFoundError
ResolveCliExe ==
    /\ pc = "resolve"
    /\ pc' = IF exeExists THEN "popen" ELSE "launch_error"
    /\ UNCHANGED <<i, exeExists, otherDaemon, procState, returncode, killSent,
                   spawnAttempts, launches, probes, sleeps, readyAt,
                   aliveAtReady, stopCmds, kills,
                   fixtureCalls>>
    /\ UNCHANGED sessionVars
    /\ UNCHANGED parseVars
    /\ UNCHANGED historyVars
    /\ UNCHANGED pathVars
    /\ UNCHANGED reportVars
    /\ UNCHANGED inputVars
    /\ UNCHANGED runnerVars

\* proc = subprocess.Popen([exe, "service", "run"], ...): the process is
\* spawned, or Popen raises OSError (the file cannot be executed)
StartDaemon ==
    /\ pc = "popen"
    /\ spawnAttempts' = spawnAttempts + 1
    /\ \E spawned \in BOOLEAN :
         /\ spawned => exeExists
         /\ IF spawned
            THEN /\ pc' = "probe"
                 /\ procState' = "running"
                 /\ launches' = launches + 1
                 /\ i' = 0
            ELSE /\ pc' = "launch_error"
                 /\ UNCHANGED <<procState, launches, i>>
    /\ UNCHANGED <<exeExists, otherDaemon, returncode, killSent, probes,
                   sleeps, readyAt, aliveAtReady, stopCmds, kills,
                   fixtureCalls>>
    /\ UNCHANGED sessionVars
    /\ UNCHANGED parseVars
    /\ UNCHANGED historyVars
    /\ UNCHANGED pathVars
    /\ UNCHANGED reportVars
    /\ UNCHANGED inputVars
    /\ UNCHANGED runnerVars

\* some daemon answers `service status` with "running":true
Serving == procState = "running" \/ otherDaemon

\* the outcomes of subprocess.run([exe, "-q", "service", "status"], timeout=5):
\* it completes with a return code and an output, or raises
ProbeOutcomes ==
    [kind : {"completed"}, rc : {0, 1}, marker : BOOLEAN]
        \cup [kind : {"timeout", "oserror"}, rc : {1}, marker : {FALSE}]

\* variant of ProbeReady: only the marker is looked for
ProbeReadyIgnoresExitCode(o) == o.kind = "completed" /\ o.marker

\* result.returncode == 0 and '"running":true' in result.stdout
ProbeReady(o) == o.kind = "completed" /\ o.rc = 0 /\ o.marker

\* variant of Probe: time.sleep(0.5) is run before the readiness test
ProbeSleepsBeforeBreak ==
    /\ pc = "probe"
    /\ \E o \in ProbeOutcomes :
         /\ o.marker => Serving
         /\ probes' = probes + 1
         /\ lastProbe' = o
         /\ IF ProbeReady(o)
            THEN /\ pc' = "yielded"
                 /\ readyAt' = probes + 1
                 /\ aliveAtReady' = (procState = "running")
                 /\ sleeps' = sleeps + 1
            ELSE /\ pc' = "sleep"
                 /\ UNCHANGED <<readyAt, aliveAtReady, sleeps>>
    /\ UNCHANGED <<i, exeExists, otherDaemon, procState, returncode, killSent,
                   spawnAttempts, launches, stopCmds, kills, fixtureCalls>>
    /\ UNCHANGED callLog
    /\ UNCHANGED sessionVars
    /\ UNCHANGED parseVars
    /\ UNCHANGED pathVars
    /\ UNCHANGED reportVars
    /\ UNCHANGED inputVars
    /\ UNCHANGED runnerVars

\* one iteration of the loop up to its break or its except clause
Probe ==
    /\ pc = "probe"
    /\ \E o \in ProbeOutcomes :
         /\ o.marker => Serving
         /\ probes' = probes + 1
         /\ lastProbe' = o
         /\ IF ProbeReady(o)
            THEN /\ pc' = "yielded"
                 /\ readyAt' = probes + 1
                 /\ aliveAtReady' = (procState = "running")
            ELSE /\ pc' = "sleep"
                 /\ UNCHANGED <<readyAt, aliveAtReady>>
    /\ UNCHANGED <<i, exeExists, otherDaemon, procState, returncode, killSent,
                   spawnAttempts, launches, sleeps, stopCmds, kills,
                   fixtureCalls>>
    /\ UNCHANGED callLog
    /\ UNCHANGED sessionVars
    /\ UNCHANGED parseVars
    /\ UNCHANGED pathVars
    /\ UNCHANGED reportVars
    /\ UNCHANGED inputVars
    /\ UNCHANGED runnerVars

\* variant of Sleep: the last iteration of the loop does not sleep, as in
\* `if i < 19: time.sleep(0.5)`
SleepSkippedOnLastAttempt ==
    /\ pc = "sleep"
    /\ sleeps' = IF i + 1 < MaxAttempts THEN sleeps + 1 ELSE sleeps
    /\ i' = i + 1
    /\ pc' = IF i + 1 < MaxAttempts THEN "probe" ELSE "exhausted"
    /\ UNCHANGED <<exeExists, otherDaemon, procState, returncode, killSent,
                   spawnAttempts, launches, probes, readyAt, aliveAtReady,
                   stopCmds, kills, fixtureCalls>>
    /\ UNCHANGED sessionVars
    /\ UNCHANGED parseVars
    /\ UNCHANGED historyVars
    /\ UNCHANGED pathVars
    /\ UNCHANGED reportVars
    /\ UNCHANGED inputVars
    /\ UNCHANGED runnerVars

\* time.sleep(0.5), then the next i of range(20) or the loop's else clause
Sleep ==
    /\ pc = "sleep"
    /\ sleeps' = sleeps + 1
    /\ i' = i + 1
    /\ pc' = IF i + 1 < MaxAttempts THEN "probe" ELSE "exhausted"
    /\ UNCHANGED <<exeExists, otherDaemon, procState, returncode, killSent,
                   spawnAttempts, launches, probes, readyAt, aliveAtReady,
                   stopCmds, kills,
                   fixtureCalls>>
    /\ UNCHANGED sessionVars
    /\ UNCHANGED parseVars
    /\ UNCHANGED historyVars
    /\ UNCHANGED pathVars
    /\ UNCHANGED reportVars
    /\ UNCHANGED inputVars
    /\ UNCHANGED runnerVars

\* Popen.kill(): the process is told to terminate; when its exit can already
\* be seen, kill() records the return code instead
ProcKill(next) ==
    /\ kills' = kills + 1
    /\ killSent' = TRUE
    /\ callLog' = Append(callLog, [at |-> pc, call |-> "kill", out |-> "sent"])
    /\ UNCHANGED lastProbe
    /\ returncode' = (returncode \/ procState = "exited")
    /\ pc' = next
    /\ UNCHANGED <<i, exeExists, otherDaemon, procState, spawnAttempts,
                   launches, probes, sleeps, readyAt, aliveAtReady, stopCmds,
                   fixtureCalls>>
    /\ UNCHANGED sessionVars
    /\ UNCHANGED parseVars
    /\ UNCHANGED pathVars
    /\ UNCHANGED reportVars
    /\ UNCHANGED inputVars
    /\ UNCHANGED runnerVars

\* else: proc.kill()
KillOnExhaustion ==
    /\ pc = "exhausted"
    /\ ProcKill("raise")

\* variant of RaiseStartupError: the else clause kills but does not raise,
\* and the fixture goes on to its yield
FallThroughToYield ==
    /\ pc = "raise"
    /\ pc' = "yielded"
    /\ UNCHANGED <<i, exeExists, otherDaemon, procState, returncode, killSent,
                   spawnAttempts, launches, probes, sleeps, readyAt,
                   aliveAtReady, stopCmds, kills, fixtureCalls>>
    /\ UNCHANGED sessionVars
    /\ UNCHANGED parseVars
    /\ UNCHANGED historyVars
    /\ UNCHANGED pathVars
    /\ UNCHANGED reportVars
    /\ UNCHANGED inputVars
    /\ UNCHANGED runnerVars

\* raise RuntimeError("CLI daemon did not start within 10 seconds")
RaiseStartupError ==
    /\ pc = "raise"
    /\ pc' = "startup_failed"
    /\ UNCHANGED <<i, exeExists, otherDaemon, procState, returncode, killSent,
                   spawnAttempts, launches, probes, sleeps, readyAt,
                   aliveAtReady, stopCmds, kills,
                   fixtureCalls>>
    /\ UNCHANGED sessionVars
    /\ UNCHANGED parseVars
    /\ UNCHANGED historyVars
    /\ UNCHANGED pathVars
    /\ UNCHANGED reportVars
    /\ UNCHANGED inputVars
    /\ UNCHANGED runnerVars

(***************************************************************************)
(* cli_daemon, teardown half (the code after the yield).                   *)
(***************************************************************************)
\* variant of StopCommand: the teardown does not run `service stop` and goes
\* straight to proc.kill()
StopCommandSkipped ==
    /\ pc = "stop_cmd"
    /\ pc' = "kill"
    /\ UNCHANGED <<i, exeExists, otherDaemon, procState, returncode, killSent,
                   spawnAttempts, launches, probes, sleeps, readyAt,
                   aliveAtReady, stopCmds, kills, fixtureCalls>>
    /\ UNCHANGED sessionVars
    /\ UNCHANGED parseVars
    /\ UNCHANGED historyVars
    /\ UNCHANGED pathVars
    /\ UNCHANGED reportVars
    /\ UNCHANGED inputVars
    /\ UNCHANGED runnerVars

\* subprocess.run([exe, "-q", "service", "stop"], timeout=5)
StopCommand ==
    /\ pc = "stop_cmd"
    /\ stopCmds' = stopCmds + 1
    /\ \E kind \in {"completed", "timeout", "oserror"} :
         /\ pc' = IF kind = "completed" THEN "wait_exit" ELSE "kill"
         /\ callLog' = Append(callLog, [at |-> pc, call |-> "stop", out |-> kind])
    /\ UNCHANGED lastProbe
    /\ UNCHANGED <<i, exeExists, otherDaemon, procState, returncode, killSent,
                   spawnAttempts, launches, probes, sleeps, readyAt,
                   aliveAtReady, kills,
                   fixtureCalls>>
    /\ UNCHANGED sessionVars
    /\ UNCHANGED parseVars
    /\ UNCHANGED pathVars
    /\ UNCHANGED reportVars
    /\ UNCHANGED inputVars
    /\ UNCHANGED runnerVars

\* variant of ProcWait: Popen.wait() without a timeout returns only once the
\* process has exited
ProcWaitUnbounded(onExit, onTimeout) ==
    /\ procState = "exited"
    /\ returncode' = TRUE
    /\ pc' = onExit
    /\ callLog' = Append(callLog, [at |-> pc, call |-> "wait", out |-> "exited"])
    /\ UNCHANGED lastProbe
    /\ UNCHANGED <<i, exeExists, otherDaemon, procState, killSent,
                   spawnAttempts, launches, probes, sleeps, readyAt,
                   aliveAtReady, stopCmds, kills, fixtureCalls>>
    /\ UNCHANGED sessionVars
    /\ UNCHANGED parseVars
    /\ UNCHANGED pathVars
    /\ UNCHANGED reportVars
    /\ UNCHANGED inputVars
    /\ UNCHANGED runnerVars

\* Popen.wait(timeout): returns once the process has exited, which it may do
\* during the wait; raises TimeoutExpired when it is still running at the end
ProcWait(onExit, onTimeout) ==
    /\ \/ /\ procState' = "exited"
          /\ returncode' = TRUE
          /\ pc' = onExit
          /\ callLog' = Append(callLog, [at |-> pc, call |-> "wait", out |-> "exited"])
       \/ /\ procState = "running"
          /\ pc' = onTimeout
          /\ UNCHANGED <<procState, returncode>>
          /\ callLog' = Append(callLog, [at |-> pc, call |-> "wait", out |-> "timeout"])
    /\ UNCHANGED lastProbe
    /\ UNCHANGED <<i, exeExists, otherDaemon, killSent, spawnAttempts,
                   launches, probes, sleeps, readyAt, aliveAtReady, stopCmds,
                   kills,
                   fixtureCalls>>
    /\ UNCHANGED sessionVars
    /\ UNCHANGED parseVars
    /\ UNCHANGED pathVars
    /\ UNCHANGED reportVars
    /\ UNCHANGED inputVars
    /\ UNCHANGED runnerVars

\* variant of WaitExit: the TimeoutExpired of the wait is swallowed, as in
\* `except subprocess.TimeoutExpired: pass` around proc.wait(timeout=10)
WaitExitSwallowsTimeout ==
    /\ pc = "wait_exit"
    /\ ProcWait("stopped", "stopped")

\* proc.wait(timeout=10) in the try block
WaitExit ==
    /\ pc = "wait_exit"
    /\ ProcWait("stopped", "kill")

\* except (subprocess.TimeoutExpired, OSError): proc.kill()
KillOnStopFailure ==
    /\ pc = "kill"
    /\ ProcKill("reap")

\* proc.wait(timeout=5) in the except block: its TimeoutExpired is not caught
Reap ==
    /\ pc = "reap"
    /\ ProcWait("stopped", "teardown_raised")

(***************************************************************************)
(* The daemon process may exit at any time by itself: it crashes, it finds *)
(* another daemon serving, it obeys a stop command or a kill.              *)
(***************************************************************************)
ProcExits ==
    /\ procState = "running"
    /\ procState' = "exited"
    /\ UNCHANGED <<pc, i, exeExists, otherDaemon, returncode, killSent,
                   spawnAttempts, launches, probes, sleeps, readyAt,
                   aliveAtReady, stopCmds, kills,
                   fixtureCalls>>
    /\ UNCHANGED sessionVars
    /\ UNCHANGED parseVars
    /\ UNCHANGED historyVars
    /\ UNCHANGED pathVars
    /\ UNCHANGED reportVars
    /\ UNCHANGED inputVars
    /\ UNCHANGED runnerVars

(***************************************************************************)
(* The pytest session.  cli_daemon is scope="session", autouse=True: the   *)
(* first CLI test that is set up calls the fixture function, and its value *)
(* (or the exception it raised) is kept for every later test of the        *)
(* session.  The tests of a session run one after the other.               *)
(***************************************************************************)
\* variant of FixtureIsCached: scope="function", nothing is kept between tests
FixtureNeverCached == FALSE

\* scope="session": once requested, the fixture's result is cached
FixtureIsCached == pc /= "unrequested"

\* the fixture function raised during set-up; the exception is cached
FixtureRaised == pc \in {"launch_error", "startup_failed"}

\* set-up of the next test function: its xfail mark is read, autouse
\* requests cli_daemon
TestSetup ==
    /\ phase = "idle"
    /\ ~sessionOver
    /\ cur < NumScenarios
    /\ cur' = cur + 1
    /\ phase' = "setup"
    /\ IF FixtureIsCached
       THEN UNCHANGED <<pc, fixtureCalls>>
       ELSE /\ pc' = "resolve"
            /\ fixtureCalls' = fixtureCalls + 1
    /\ UNCHANGED <<i, exeExists, otherDaemon, procState, returncode, killSent,
                   spawnAttempts, launches, probes, sleeps, readyAt,
                   aliveAtReady, stopCmds, kills>>
    /\ UNCHANGED <<step, results, stepsRun, sessionOver>>
    /\ UNCHANGED parseVars
    /\ UNCHANGED historyVars
    /\ UNCHANGED pathVars
    /\ UNCHANGED reportVars
    /\ xfail' \in BOOLEAN
    /\ UNCHANGED <<response, pattern>>
    /\ UNCHANGED runnerVars

\* the fixture has yielded: the test function is called
TestCall ==
    /\ phase = "setup"
    /\ pc = "yielded"
    /\ phase' = "body"
    /\ step' = 1
    /\ UNCHANGED daemonVars
    /\ UNCHANGED parseVars
    /\ UNCHANGED historyVars
    /\ UNCHANGED pathVars
    /\ UNCHANGED reportVars
    /\ UNCHANGED inputVars
    /\ UNCHANGED runnerVars
    /\ UNCHANGED <<cur, results, stepsRun, sessionOver>>

\* variant of Report: the mark is set for the whole module (pytestmark),
\* so that every test is handled as xfail
ReportEveryTestXfail(cause, marked) == "xfailed"

\* the report of a test that raised in its set-up, in an aitest_run call or
\* in an assertion: with @pytest.mark.xfail(strict=False) each of them is
\* reported as xfailed
Report(cause, marked) ==
    IF marked THEN "xfailed"
    ELSE IF cause = "setup" THEN "error"
    ELSE "failed"

\* pytest logs the report of an exception; a failed or error report counts
\* in session.testsfailed.  The log keeps the set-up errors and the failed
\* assertions.
LogException(cause) ==
    /\ failureLog' = IF cause = "aitest_run"
                     THEN failureLog
                     ELSE failureLog \cup {[cause |-> cause, marked |-> xfail]}
    /\ testsfailed' = (testsfailed \/ Report(cause, xfail) \in {"failed", "error"})

\* the fixture raised: the test is reported as an error and is not called
TestSetupError ==
    /\ phase = "setup"
    /\ FixtureRaised
    /\ phase' = "idle"
    /\ results' = [results EXCEPT ![cur] = "error"]
    /\ UNCHANGED daemonVars
    /\ UNCHANGED parseVars
    /\ UNCHANGED historyVars
    /\ UNCHANGED pathVars
    /\ LogException("setup")
    /\ xfail' = FALSE
    /\ UNCHANGED <<response, pattern>>
    /\ UNCHANGED runnerVars
    /\ UNCHANGED <<cur, step, stepsRun, sessionOver>>

\* result = await aitest_run(agent, prompt, ...): the agent run returns a
\* result, or does not end within its time limit: the call raised and the
\* test fails before any of its assertions
AgentStep ==
    /\ phase = "body"
    /\ stepsRun' = stepsRun + 1
    /\ \E returned \in BOOLEAN :
         IF returned
         THEN /\ phase' = "validate"
              /\ UNCHANGED results
              /\ UNCHANGED reportVars
              /\ UNCHANGED xfail
         ELSE /\ phase' = "idle"
              /\ results' = [results EXCEPT ![cur] = "failed"]
              /\ LogException("aitest_run")
              /\ xfail' = FALSE
    /\ UNCHANGED daemonVars
    /\ UNCHANGED parseVars
    /\ UNCHANGED historyVars
    /\ UNCHANGED pathVars
    /\ UNCHANGED <<response, pattern>>
    /\ UNCHANGED runnerVars
    /\ UNCHANGED <<cur, step, sessionOver>>

\* the assertions after an aitest_run call: the first one that fails ends
\* the test; when all hold the test goes on to its next turn or passes
Validate ==
    /\ phase = "validate"
    /\ \E ok \in BOOLEAN, last \in BOOLEAN :
         /\ step = MaxSteps => last
         /\ IF ~ok
            THEN /\ phase' = "idle"
                 /\ results' = [results EXCEPT ![cur] = "failed"]
                 /\ LogException("assert")
                 /\ xfail' = FALSE
                 /\ UNCHANGED step
            ELSE IF last
            THEN /\ phase' = "idle"
                 /\ results' = [results EXCEPT ![cur] = "passed"]
                 /\ UNCHANGED reportVars
                 /\ xfail' = FALSE
                 /\ UNCHANGED step
            ELSE /\ phase' = "body"
                 /\ step' = step + 1
                 /\ UNCHANGED results
                 /\ UNCHANGED reportVars
                 /\ UNCHANGED xfail
    /\ UNCHANGED daemonVars
    /\ UNCHANGED parseVars
    /\ UNCHANGED historyVars
    /\ UNCHANGED pathVars
    /\ UNCHANGED <<response, pattern>>
    /\ UNCHANGED runnerVars
    /\ UNCHANGED <<cur, stepsRun, sessionOver>>

\* the tests that failed so far
Failures == {t \in Scenarios : results[t] \in {"failed", "error"}}

\* variant of SessionFinish: the teardown is in a `finally` around the whole
\* fixture body and also runs after the start-up error
SessionFinishStopsFailedDaemon ==
    /\ phase = "idle"
    /\ ~sessionOver
    /\ cur = NumScenarios \/ testsfailed
    /\ sessionOver' = TRUE
    /\ pc' = IF pc \in {"yielded", "startup_failed"} THEN "stop_cmd" ELSE pc
    /\ UNCHANGED <<i, exeExists, otherDaemon, procState, returncode, killSent,
                   spawnAttempts, launches, probes, sleeps, readyAt,
                   aliveAtReady, stopCmds, kills, fixtureCalls>>
    /\ UNCHANGED <<cur, phase, step, results, stepsRun>>
    /\ UNCHANGED parseVars
    /\ UNCHANGED historyVars
    /\ UNCHANGED pathVars
    /\ UNCHANGED reportVars
    /\ UNCHANGED inputVars
    /\ UNCHANGED runnerVars

\* variant of SessionFinish: the code after the yield is skipped when a test
\* of the session failed
SessionFinishSkipsOnFailure ==
    /\ phase = "idle"
    /\ ~sessionOver
    /\ cur = NumScenarios \/ testsfailed
    /\ sessionOver' = TRUE
    /\ pc' = IF pc = "yielded" /\ ~testsfailed THEN "stop_cmd" ELSE pc
    /\ UNCHANGED <<i, exeExists, otherDaemon, procState, returncode, killSent,
                   spawnAttempts, launches, probes, sleeps, readyAt,
                   aliveAtReady, stopCmds, kills, fixtureCalls>>
    /\ UNCHANGED <<cur, phase, step, results, stepsRun>>
    /\ UNCHANGED parseVars
    /\ UNCHANGED historyVars
    /\ UNCHANGED pathVars
    /\ UNCHANGED reportVars
    /\ UNCHANGED inputVars
    /\ UNCHANGED runnerVars

\* the run loop ends, after the last test or earlier (pytest -x / --maxfail
\* after a report that counts as a failure); pytest then finalizes the session fixtures: the code
\* after the yield runs if the fixture had yielded
SessionFinish ==
    /\ phase = "idle"
    /\ ~sessionOver
    /\ cur = NumScenarios \/ testsfailed
    /\ sessionOver' = TRUE
    /\ pc' = IF pc = "yielded" THEN "stop_cmd" ELSE pc
    /\ UNCHANGED <<i, exeExists, otherDaemon, procState, returncode, killSent,
                   spawnAttempts, launches, probes, sleeps, readyAt,
                   aliveAtReady, stopCmds, kills,
                   fixtureCalls>>
    /\ UNCHANGED <<cur, phase, step, results, stepsRun>>
    /\ UNCHANGED parseVars
    /\ UNCHANGED historyVars
    /\ UNCHANGED pathVars
    /\ UNCHANGED reportVars
    /\ UNCHANGED inputVars
    /\ UNCHANGED runnerVars

(***************************************************************************)
(* What pytest reports and the exit status of the run.                     *)
(***************************************************************************)
\* the run is over: the loop has ended and the fixture was finalized
SessionDone == sessionOver /\ pc \notin {"stop_cmd", "wait_exit", "kill", "reap"}

\* the exit status of pytest: 1 when a test was reported failed or in error
\* (the teardown of the fixture included), 0 otherwise
ExitStatus == IF testsfailed \/ pc = "teardown_raised" THEN 1 ELSE 0

(***************************************************************************)
(* The session: the fixture, the tests and the daemon process.             *)
(***************************************************************************)
\* the verdict of a call that raised nothing
NoVerdict ==
    [raised |-> "none", msg |-> "",
     record |-> [kind |-> "null", num |-> 0, text |-> <<>>, items |-> <<>>]]

\* `messages = None`, the value of a test's `messages` before its first turn
None == 0

\* no exception has ended the test
NoFailure == [turn |-> 0, by |-> "none"]

\* the marks of a test are read when it is set up; no response is under
\* validation
NoMarks == FALSE

InputIdle ==
    /\ xfail = NoMarks
    /\ response = <<>>
    /\ pattern = <<>>

\* no path has been asked for
PathIdle ==
    /\ tempDir = "T"
    /\ issued = {}
    /\ paths = <<>>

\* nothing has been reported yet
ReportIdle ==
    /\ failureLog = {}
    /\ testsfailed = FALSE

\* no test function is being run
RunnerIdle ==
    /\ plan = <<>>
    /\ messages = None
    /\ result = 0
    /\ asserted = 0
    /\ sent = <<>>
    /\ evals = <<>>
    /\ failure = NoFailure
    /\ nextId = 1

ParseIdle ==
    /\ transcript = <<>>
    /\ outputs = <<>>
    /\ parsePc = "idle"
    /\ parseError = "none"
    /\ given = <<>>
    /\ token = <<>>
    /\ prevOutputs = <<>>
    /\ parseRuns = 0
    /\ callsMade = 0
    /\ lastCall = "none"
    /\ verdict = NoVerdict

Init == DaemonInit /\ SessionInit /\ ParseIdle /\ RunnerIdle /\ InputIdle /\ ReportIdle
        /\ PathIdle

\* the steps of the harness (pytest and the fixture)
HarnessStep ==
    \/ TestSetup
    \/ ResolveCliExe
    \/ StartDaemon
    \/ Probe
    \/ Sleep
    \/ KillOnExhaustion
    \/ RaiseStartupError
    \/ TestCall
    \/ TestSetupError
    \/ AgentStep
    \/ Validate
    \/ SessionFinish
    \/ StopCommand
    \/ WaitExit
    \/ KillOnStopFailure
    \/ Reap

Next == HarnessStep \/ ProcExits

Spec == Init /\ [][Next]_vars

\* pytest and the fixture keep running while they have a step to take; every
\* call they wait on is bounded by a timeout
FairSpec == Spec /\ WF_vars(HarnessStep)

TypeOK ==
    /\ pc \in PcValues
    /\ i \in 0..MaxAttempts
    /\ procState \in {"none", "running", "exited"}
    /\ probes \in 0..MaxAttempts
    /\ sleeps \in 0..MaxAttempts
    /\ cur \in 0..NumScenarios
    /\ phase \in {"idle", "setup", "body", "validate"}
    /\ step \in 0..MaxSteps

(***************************************************************************)
(* _parse_cli_results (llm-tests/conftest.py).                             *)
(*                                                                         *)
(* A tool result is a text, modelled as the sequence of its lexemes, which *)
(* the text separates by blanks; the empty sequence is the empty string.   *)
(* The lexemes are those of JSON texts made of the numbers 0 and 1, null,  *)
(* the string "ok" (lexeme "str"), arrays, and objects whose keys are      *)
(* "exit_code" (lexeme "exit_code:", the key and its colon), plus "x", a   *)
(* word that is not JSON (plain output text).  json.loads is modelled by   *)
(* a decoder of these texts.                                               *)
(***************************************************************************)
Lexemes == {"{", "}", "[", "]", ",", "0", "1", "null", "str", "exit_code:", "x"}

\* the values json.loads returns: int, str, None, list, dict
JInt(n) == [kind |-> "int", num |-> n, text |-> <<>>, items |-> <<>>]
JStr(t) == [kind |-> "str", num |-> 0, text |-> t, items |-> <<>>]
JNull == [kind |-> "null", num |-> 0, text |-> <<>>, items |-> <<>>]
JList(vs) == [kind |-> "list", num |-> 0, text |-> <<>>, items |-> vs]
\* a dict: its members [key, val] in insertion order
JDict(ms) == [kind |-> "dict", num |-> 0, text |-> <<>>, items |-> ms]

\* d[k] = v on the members of a dict
DictSet(ms, k, v) ==
    IF \E n \in DOMAIN ms : ms[n].key = k
    THEN [n \in DOMAIN ms |-> IF ms[n].key = k THEN [key |-> k, val |-> v] ELSE ms[n]]
    ELSE Append(ms, [key |-> k, val |-> v])

ScanOk(v, rest) == [ok |-> TRUE, val |-> v, rest |-> rest]
ScanFail == [ok |-> FALSE, val |-> JNull, rest |-> <<>>]

RECURSIVE ScanOnce(_), ScanArray(_, _), ScanObject(_, _)

\* one JSON value at the head of toks
ScanOnce(toks) ==
    IF toks = <<>> THEN ScanFail
    ELSE LET h == Head(toks)
             t == Tail(toks)
         IN  CASE h = "0" -> ScanOk(JInt(0), t)
               [] h = "1" -> ScanOk(JInt(1), t)
               [] h = "null" -> ScanOk(JNull, t)
               [] h = "str" -> ScanOk(JStr(<<"ok">>), t)
               [] h = "[" -> IF t /= <<>> /\ Head(t) = "]"
                             THEN ScanOk(JList(<<>>), Tail(t))
                             ELSE ScanArray(t, <<>>)
               [] h = "{" -> IF t /= <<>> /\ Head(t) = "}"
                             THEN ScanOk(JDict(<<>>), Tail(t))
                             ELSE ScanObject(t, <<>>)
               [] OTHER -> ScanFail

\* the items of an array after its "[" or a ","
ScanArray(toks, acc) ==
    LET r == ScanOnce(toks)
    IN  IF ~r.ok \/ r.rest = <<>> THEN ScanFail
        ELSE IF Head(r.rest) = "]"
        THEN ScanOk(JList(Append(acc, r.val)), Tail(r.rest))
        ELSE IF Head(r.rest) = ","
        THEN ScanArray(Tail(r.rest), Append(acc, r.val))
        ELSE ScanFail

\* the members of an object after its "{" or a ","
ScanObject(toks, acc) ==
    IF toks = <<>> \/ Head(toks) /= "exit_code:" THEN ScanFail
    ELSE LET r == ScanOnce(Tail(toks))
         IN  IF ~r.ok \/ r.rest = <<>> THEN ScanFail
             ELSE IF Head(r.rest) = "}"
             THEN ScanOk(JDict(DictSet(acc, "exit_code", r.val)), Tail(r.rest))
             ELSE IF Head(r.rest) = ","
             THEN ScanObject(Tail(r.rest), DictSet(acc, "exit_code", r.val))
             ELSE ScanFail

\* json.loads(s): the value of the text, or JSONDecodeError when the text is
\* not one JSON value (nothing may follow the value)
JsonLoads(s) ==
    LET r == ScanOnce(s)
    IN  IF r.ok /\ r.rest = <<>>
        THEN [status |-> "ok", value |-> r.val]
        ELSE [status |-> "JSONDecodeError", value |-> JNull]

\* a tool call of the transcript: its name, its result (a str or None) and
\* its arguments, here without an "args" entry
ToolCall(name, isNone, text) ==
    [name |-> name, isNone |-> isNone, text |-> text,
     hasArgs |-> FALSE, args |-> <<>>]

\* a tool call whose arguments hold the string args under "args"
ToolCallWithArgs(name, isNone, text, args) ==
    [name |-> name, isNone |-> isNone, text |-> text,
     hasArgs |-> TRUE, args |-> args]

\* `if call.result:` None and the empty string are false
Truthy(call) == ~call.isNone /\ call.text /= <<>>

\* variant of ToolCallsFor: the calls of every tool are returned
ToolCallsOfAnyTool(calls, name) == calls

\* result.tool_calls_for("excel_execute")
ToolCallsFor(calls, name) == SelectSeq(calls, LAMBDA c : c.name = name)

\* variant of FailedDecodeRecord: the raw text is not kept in stdout
FailedDecodeRecordDropsRaw(raw) ==
    JDict(<<[key |-> "exit_code", val |-> JInt(-1)],
            [key |-> "stdout", val |-> JStr(<<>>)],
            [key |-> "stderr", val |-> JStr(<<>>)]>>)

\* {"exit_code": -1, "stdout": call.result, "stderr": ""}
FailedDecodeRecord(raw) ==
    JDict(<<[key |-> "exit_code", val |-> JInt(-1)],
            [key |-> "stdout", val |-> JStr(raw)],
            [key |-> "stderr", val |-> JStr(<<>>)]>>)

RECURSIVE ParseLoop(_, _)

\* `for call in calls:` with the outputs so far; the result is the list and
\* the exception that ended the loop, "none" when it ran to its end
ParseLoop(calls, outs) ==
    IF calls = <<>> THEN [raised |-> "none", outputs |-> outs]
    ELSE LET call == Head(calls)
         IN  IF Truthy(call)
             THEN LET d == JsonLoads(call.text)
                  IN  IF d.status = "ok"
                      THEN ParseLoop(Tail(calls), Append(outs, d.value))
                      ELSE IF d.status = "JSONDecodeError"
                      THEN ParseLoop(Tail(calls),
                                     Append(outs, FailedDecodeRecord(call.text)))
                      ELSE [raised |-> d.status, outputs |-> outs]
             ELSE ParseLoop(Tail(calls), outs)

\* variant of ParseCliResults: the list is kept between calls (a module-level
\* list or a mutable default argument) instead of `outputs = []`
ParseCliResultsKeepsList(calls) ==
    ParseLoop(ToolCallsFor(calls, "excel_execute"), outputs)

\* _parse_cli_results(result)
ParseCliResults(calls) == ParseLoop(ToolCallsFor(calls, "excel_execute"), <<>>)

(***************************************************************************)
(* assert_cli_exit_codes and assert_cli_args_contain (llm-tests/conftest.py).*)
(* A call ends with a verdict: the exception raised ("none" when the call  *)
(* returns), its message and the record the message carries.               *)
(***************************************************************************)
Raise(exc, msg, rec) == [raised |-> exc, msg |-> msg, record |-> rec]

\* variant of DictGet: output.get("exit_code", 0), a missing key reads as 0
DictGetDefaultZero(ms, k) ==
    IF \E n \in DOMAIN ms : ms[n].key = k
    THEN ms[CHOOSE n \in DOMAIN ms : ms[n].key = k].val
    ELSE JInt(0)

\* output.get(k) on the members of a dict: the value, None without the key
DictGet(ms, k) ==
    IF \E n \in DOMAIN ms : ms[n].key = k
    THEN ms[CHOOSE n \in DOMAIN ms : ms[n].key = k].val
    ELSE JNull

\* v != 0
NotEqualZero(v) == ~(v.kind = "int" /\ v.num = 0)

RECURSIVE ExitCodeLoop(_)

\* `for output in outputs:` only a dict has .get; the first output whose
\* exit_code is not 0 raises AssertionError with that output
ExitCodeLoop(outs) ==
    IF outs = <<>> THEN NoVerdict
    ELSE LET output == Head(outs)
         IN  IF output.kind /= "dict"
             THEN Raise("AttributeError", "object has no attribute 'get'", output)
             ELSE IF NotEqualZero(DictGet(output.items, "exit_code"))
             THEN Raise("AssertionError", "CLI exit code not zero", output)
             ELSE ExitCodeLoop(Tail(outs))

\* variant of ExitCodesVerdict: only the first output is looked at
ExitCodesVerdictFirstOnly(outs) ==
    IF outs = <<>>
    THEN Raise("AssertionError", "No CLI executions recorded", JNull)
    ELSE ExitCodeLoop(<<Head(outs)>>)

\* assert_cli_exit_codes after its call of _parse_cli_results
ExitCodesVerdict(outs) ==
    IF outs = <<>>
    THEN Raise("AssertionError", "No CLI executions recorded", JNull)
    ELSE ExitCodeLoop(outs)

\* call.arguments.get("args", "")
ArgsOf(call) == IF call.hasArgs THEN call.args ELSE <<>>

\* variant of StrContains: args.startswith(token)
StrStartsWith(tok, str) ==
    Len(tok) <= Len(str) /\ SubSeq(str, 1, Len(tok)) = tok

\* `token in args` on two strings
StrContains(tok, str) ==
    \E a \in 0..(Len(str) - Len(tok)) : SubSeq(str, a + 1, a + Len(tok)) = tok

RECURSIVE ArgsLoop(_, _)

\* `for call in calls:` returns at the first call whose args hold the token
ArgsLoop(calls, tok) ==
    IF calls = <<>>
    THEN Raise("AssertionError", "Expected CLI args to include token", JNull)
    ELSE IF StrContains(tok, ArgsOf(Head(calls)))
    THEN NoVerdict
    ELSE ArgsLoop(Tail(calls), tok)

\* assert_cli_args_contain(result, token)
ArgsContainVerdict(calls, tok) ==
    ArgsLoop(ToolCallsFor(calls, "excel_execute"), tok)

(***************************************************************************)
(* The transcripts _parse_cli_results is applied to: one excel_execute     *)
(* call with any result text of up to MaxRawLen lexemes, and up to         *)
(* MaxCalls calls of two tools with results drawn from SampleResults.      *)
(***************************************************************************)
RawStrings == UNION {[1..n -> Lexemes] : n \in 0..MaxRawLen}

ToolNames == {"excel_execute", "other_tool"}

SampleTexts ==
    {<<>>, <<"x">>, <<"{", "x">>, <<"0">>, <<"{", "}">>,
     <<"{", "exit_code:", "0", "}">>, <<"{", "exit_code:", "1", "}">>}

SampleCalls ==
    {ToolCall(n, FALSE, t) : n \in ToolNames, t \in SampleTexts}
        \cup {ToolCall(n, TRUE, <<>>) : n \in ToolNames}

Transcripts ==
    {<<ToolCall("excel_execute", FALSE, r)>> : r \in RawStrings}
        \cup UNION {[1..n -> SampleCalls] : n \in 0..MaxCalls}

\* the characters of the args strings and of the tokens searched in them
ArgChars == {"a", "b"}

ArgStrings == UNION {[1..n -> ArgChars] : n \in 0..MaxArgLen}

\* the tokens the tests look for: the empty one, one character, two orders
ArgTokens == {<<>>, <<"a">>, <<"a", "b">>, <<"b", "a">>}

\* calls that ran a command: excel_execute with and without "args", and a
\* call of another tool whose args would match
ArgCalls ==
    {ToolCallWithArgs("excel_execute", FALSE, <<"{", "exit_code:", "0", "}">>, g) :
        g \in ArgStrings}
        \cup {ToolCall("excel_execute", FALSE, <<"{", "exit_code:", "0", "}">>)}
        \cup {ToolCallWithArgs("other_tool", FALSE, <<"{", "exit_code:", "0", "}">>, g) :
                g \in {<<"a">>, <<"a", "b">>}}

ArgTranscripts == UNION {[1..n -> ArgCalls] : n \in 0..MaxCalls}

\* the process and the session at rest while a transcript is parsed
HarnessIdle ==
    /\ DaemonInit
    /\ exeExists
    /\ ~otherDaemon
    /\ SessionInit
    /\ RunnerIdle
    /\ xfail = NoMarks
    /\ ReportIdle

\* a test holds the result of one agent run and the token it looks for
ParseInit ==
    /\ HarnessIdle
    /\ PathIdle
    /\ \/ transcript \in Transcripts /\ token = <<"a">>
       \/ transcript \in ArgTranscripts /\ token \in ArgTokens
    /\ given = transcript
    /\ response = <<>>
    /\ pattern = <<>>
    /\ outputs = <<>>
    /\ parsePc = "called"
    /\ parseError = "none"
    /\ prevOutputs = <<>>
    /\ parseRuns = 0
    /\ callsMade = 0
    /\ lastCall = "none"
    /\ verdict = NoVerdict

\* one run of _parse_cli_results on the transcript: the list it returns
\* replaces the one the caller held from the run before
ParseRun(r) ==
    /\ prevOutputs' = outputs
    /\ outputs' = r.outputs
    /\ parseError' = r.raised
    /\ parsePc' = IF r.raised = "none" THEN "returned" ELSE "raised"
    /\ parseRuns' = parseRuns + 1

\* outputs = _parse_cli_results(result)
ParseCall ==
    /\ parsePc /= "idle"
    /\ callsMade < MaxValidatorCalls
    /\ ParseRun(ParseCliResults(transcript))
    /\ callsMade' = callsMade + 1
    /\ lastCall' = "_parse_cli_results"
    /\ verdict' = NoVerdict
    /\ UNCHANGED <<transcript, given, token>>
    /\ UNCHANGED daemonVars
    /\ UNCHANGED sessionVars
    /\ UNCHANGED runnerVars
    /\ UNCHANGED historyVars
    /\ UNCHANGED pathVars
    /\ UNCHANGED reportVars
    /\ UNCHANGED inputVars

\* assert_cli_exit_codes(result)
AssertCliExitCodes ==
    /\ parsePc /= "idle"
    /\ callsMade < MaxValidatorCalls
    /\ LET r == ParseCliResults(transcript)
       IN  /\ ParseRun(r)
           /\ verdict' = IF r.raised /= "none"
                         THEN Raise(r.raised, "", JNull)
                         ELSE ExitCodesVerdict(r.outputs)
    /\ callsMade' = callsMade + 1
    /\ lastCall' = "assert_cli_exit_codes"
    /\ UNCHANGED <<transcript, given, token>>
    /\ UNCHANGED daemonVars
    /\ UNCHANGED sessionVars
    /\ UNCHANGED runnerVars
    /\ UNCHANGED historyVars
    /\ UNCHANGED pathVars
    /\ UNCHANGED reportVars
    /\ UNCHANGED inputVars

\* variant of AssertCliArgsContain: the arguments are read with
\* call.arguments.pop("args", "") and leave the calls of the result
AssertCliArgsContainPops ==
    /\ parsePc /= "idle"
    /\ callsMade < MaxValidatorCalls
    /\ verdict' = ArgsContainVerdict(transcript, token)
    /\ transcript' = [k \in DOMAIN transcript |->
                        [transcript[k] EXCEPT !.hasArgs = FALSE, !.args = <<>>]]
    /\ callsMade' = callsMade + 1
    /\ lastCall' = "assert_cli_args_contain"
    /\ UNCHANGED <<given, token>>
    /\ UNCHANGED <<outputs, prevOutputs, parsePc, parseError, parseRuns>>
    /\ UNCHANGED daemonVars
    /\ UNCHANGED sessionVars
    /\ UNCHANGED runnerVars
    /\ UNCHANGED historyVars
    /\ UNCHANGED pathVars
    /\ UNCHANGED reportVars
    /\ UNCHANGED inputVars

\* assert_cli_args_contain(result, token)
AssertCliArgsContain ==
    /\ parsePc /= "idle"
    /\ callsMade < MaxValidatorCalls
    /\ verdict' = ArgsContainVerdict(transcript, token)
    /\ callsMade' = callsMade + 1
    /\ lastCall' = "assert_cli_args_contain"
    /\ UNCHANGED <<transcript, given, token>>
    /\ UNCHANGED <<outputs, prevOutputs, parsePc, parseError, parseRuns>>
    /\ UNCHANGED daemonVars
    /\ UNCHANGED sessionVars
    /\ UNCHANGED runnerVars
    /\ UNCHANGED historyVars
    /\ UNCHANGED pathVars
    /\ UNCHANGED reportVars
    /\ UNCHANGED inputVars

\* the characters of the responses and of the patterns
ResponseChars == {"a", "A", "b"}

\* str.lower() of one character
LowerChar(c) == IF c = "A" THEN "a" ELSE c

Lower(str) == [k \in DOMAIN str |-> LowerChar(str[k])]

\* re.search(pattern, text, re.IGNORECASE | re.MULTILINE) for the patterns
\* the tests pass: an alternation of literals, here the sequence of its
\* alternatives
ReSearch(pat, text) ==
    \E k \in DOMAIN pat : StrContains(Lower(pat[k]), Lower(text))

\* assert_regex(text, pattern)
RegexVerdict(text, pat) ==
    IF ~ReSearch(pat, text)
    THEN Raise("AssertionError", "Pattern not found", JNull)
    ELSE NoVerdict

\* assert_regex(result.final_response, pattern)
AssertRegex ==
    /\ parsePc /= "idle"
    /\ callsMade < MaxValidatorCalls
    /\ verdict' = RegexVerdict(response, pattern)
    /\ callsMade' = callsMade + 1
    /\ lastCall' = "assert_regex"
    /\ UNCHANGED <<transcript, given, token>>
    /\ UNCHANGED <<outputs, prevOutputs, parsePc, parseError, parseRuns>>
    /\ UNCHANGED daemonVars
    /\ UNCHANGED sessionVars
    /\ UNCHANGED runnerVars
    /\ UNCHANGED historyVars
    /\ UNCHANGED pathVars
    /\ UNCHANGED reportVars
    /\ UNCHANGED inputVars

(***************************************************************************)
(* The validators a test composes on the result of one agent run: the      *)
(* result holds the tool calls and the final response.                     *)
(***************************************************************************)
\* calls with a zero and a non-zero exit code, plain output, another tool
ValidatorCalls ==
    {ToolCallWithArgs("excel_execute", FALSE, <<"{", "exit_code:", "0", "}">>, <<"a">>),
     ToolCallWithArgs("excel_execute", FALSE, <<"{", "exit_code:", "1", "}">>, <<"b", "a">>),
     ToolCall("excel_execute", FALSE, <<"x">>),
     ToolCallWithArgs("other_tool", FALSE, <<"{", "exit_code:", "0", "}">>, <<"a">>)}

ValidatorTranscripts == UNION {[1..n -> ValidatorCalls] : n \in 0..MaxCalls}

Responses == UNION {[1..n -> ResponseChars] : n \in 0..MaxArgLen}

\* (a), (Ab) and (b|aa)
Patterns == {<< <<"a">> >>, << <<"A", "b">> >>, << <<"b">>, <<"a", "a">> >>}

ValidatorInit ==
    /\ HarnessIdle
    /\ PathIdle
    /\ transcript \in ValidatorTranscripts
    /\ token = <<"a">>
    /\ given = transcript
    /\ response \in Responses
    /\ pattern \in Patterns
    /\ outputs = <<>>
    /\ parsePc = "called"
    /\ parseError = "none"
    /\ prevOutputs = <<>>
    /\ parseRuns = 0
    /\ callsMade = 0
    /\ lastCall = "none"
    /\ verdict = NoVerdict

ValidatorNext ==
    \/ AssertCliExitCodes
    \/ AssertCliArgsContain
    \/ AssertRegex

ValidatorSpec == ValidatorInit /\ [][ValidatorNext]_vars

ParseNext ==
    \/ ParseCall
    \/ AssertCliExitCodes
    \/ AssertCliArgsContain

ParseSpec == ParseInit /\ [][ParseNext]_vars

(***************************************************************************)
(* unique_path and unique_results_path (llm-tests/conftest.py).  A path is *)
(* a string of characters; the text of a uuid has a fixed number of        *)
(* characters.  uuid.uuid4() draws 122 random bits: it is taken to return  *)
(* a value it has not returned before.                                     *)
(***************************************************************************)
HexChars == {"0", "1"}

\* the texts str(uuid) can be
Uuids == [1..UuidLen -> HexChars]

\* the prefixes the tests pass; a test may pass the prefix of another one
Prefixes == {<<"a">>, <<"a", "-", "0">>, <<"b">>}

\* the suffixes: the default ".xlsx" and another one
Suffixes == {<<".xlsx">>, <<".png">>}

\* the directories: TEMP may name any directory, TEST_RESULTS_DIR included
Dirs == {"T", "R"}

TestResultsDir == "R"

\* variant of PathName: the uuid is cut to its first character, as in
\* str(uuid.uuid4())[:1]
PathNameShortUuid(dir, prefix, uuid, suffix) ==
    <<dir, "/">> \o prefix \o <<"-">> \o SubSeq(uuid, 1, 1) \o suffix

\* (dir / f"{prefix}-{uuid}{suffix}").as_posix()
PathName(dir, prefix, uuid, suffix) ==
    <<dir, "/">> \o prefix \o <<"-">> \o uuid \o suffix

\* the process, the session and the validators at rest while paths are made
PathInit ==
    /\ HarnessIdle
    /\ ParseIdle
    /\ response = <<>>
    /\ pattern = <<>>
    /\ tempDir \in Dirs
    /\ issued = {}
    /\ paths = <<>>

\* one call that returns the path made of dir, prefix, a new uuid and suffix
MakePath(dir) ==
    /\ Len(paths) < MaxPaths
    /\ \E prefix \in Prefixes, suffix \in Suffixes, uuid \in Uuids \ issued :
         /\ issued' = issued \cup {uuid}
         /\ paths' = Append(paths, PathName(dir, prefix, uuid, suffix))
    /\ UNCHANGED tempDir
    /\ UNCHANGED daemonVars
    /\ UNCHANGED sessionVars
    /\ UNCHANGED parseVars
    /\ UNCHANGED historyVars
    /\ UNCHANGED runnerVars
    /\ UNCHANGED inputVars
    /\ UNCHANGED reportVars

\* unique_path(prefix, suffix)
UniquePath == MakePath(tempDir)

\* unique_results_path(prefix, suffix)
UniqueResultsPath == MakePath(TestResultsDir)

PathNext == UniquePath \/ UniqueResultsPath

PathSpec == PathInit /\ [][PathNext]_vars

(***************************************************************************)
(* The body of a CLI test function (llm-tests/cli/test_cli_*.py).  Every   *)
(* test has the same shape: `messages = None`, then for each turn          *)
(*     result = await aitest_run(agent, prompt, messages=messages)         *)
(*     assert result.success                                               *)
(*     assert_cli_exit_codes(result)          (and further assertions)     *)
(*     messages = result.messages             (when another turn follows)  *)
(* The statements run in program order and the first exception ends the    *)
(* test.  Agent results are numbered in the order they are returned; the   *)
(* messages of result r are written r, an opaque value the test only       *)
(* passes on.                                                              *)
(***************************************************************************)
\* the shapes of a test function: its turns and the assertions after each
Plans == UNION {[1..n -> 1..MaxValidators] : n \in 1..MaxSteps}

\* the daemon is ready and the first test of the session is being set up
RunnerInit ==
    /\ pc = "yielded"
    /\ i = 0
    /\ exeExists = TRUE
    /\ otherDaemon = FALSE
    /\ procState = "running"
    /\ returncode = FALSE
    /\ killSent = FALSE
    /\ spawnAttempts = 1
    /\ launches = 1
    /\ probes = 1
    /\ sleeps = 0
    /\ readyAt = 1
    /\ aliveAtReady = TRUE
    /\ stopCmds = 0
    /\ kills = 0
    /\ fixtureCalls = 1
    /\ lastProbe = [kind |-> "completed", rc |-> 0, marker |-> TRUE]
    /\ callLog = <<>>
    /\ cur = 1
    /\ phase = "setup"
    /\ step = 0
    /\ results = [t \in Scenarios |-> "pending"]
    /\ stepsRun = 0
    /\ sessionOver = FALSE
    /\ ParseIdle
    /\ RunnerIdle
    /\ InputIdle
    /\ ReportIdle
    /\ PathIdle

\* variant of TestFunctionCalled: `messages` is a module-level name that is
\* not reset when a test function starts
TestFunctionCalledKeepsMessages ==
    /\ phase = "setup"
    /\ pc = "yielded"
    /\ phase' = "body"
    /\ step' = 1
    /\ \E p \in Plans : plan' = p
    /\ result' = 0
    /\ asserted' = 0
    /\ sent' = <<>>
    /\ evals' = <<>>
    /\ failure' = NoFailure
    /\ UNCHANGED <<messages, nextId>>
    /\ UNCHANGED <<cur, results, stepsRun, sessionOver>>
    /\ UNCHANGED daemonVars
    /\ UNCHANGED parseVars
    /\ UNCHANGED historyVars
    /\ UNCHANGED pathVars
    /\ UNCHANGED reportVars
    /\ UNCHANGED inputVars

\* the test function is called and runs up to its first turn:
\* `messages = None`
TestFunctionCalled ==
    /\ phase = "setup"
    /\ pc = "yielded"
    /\ phase' = "body"
    /\ step' = 1
    /\ \E p \in Plans : plan' = p
    /\ messages' = None
    /\ result' = 0
    /\ asserted' = 0
    /\ sent' = <<>>
    /\ evals' = <<>>
    /\ failure' = NoFailure
    /\ UNCHANGED nextId
    /\ UNCHANGED <<cur, results, stepsRun, sessionOver>>
    /\ UNCHANGED daemonVars
    /\ UNCHANGED parseVars
    /\ UNCHANGED historyVars
    /\ UNCHANGED pathVars
    /\ UNCHANGED reportVars
    /\ UNCHANGED inputVars

\* variant of AitestRun: the later turns bind their result to another name
\* and `result` keeps the result of the first turn
AitestRunKeepsFirstResult ==
    /\ phase = "body"
    /\ stepsRun' = stepsRun + 1
    /\ \E returned \in BOOLEAN :
         IF returned
         THEN /\ result' = IF result = 0 THEN nextId ELSE result
              /\ sent' = Append(sent, [passed |-> messages, returned |-> nextId])
              /\ nextId' = nextId + 1
              /\ asserted' = 0
              /\ phase' = "validate"
              /\ UNCHANGED <<results, failure>>
         ELSE /\ sent' = Append(sent, [passed |-> messages, returned |-> 0])
              /\ phase' = "idle"
              /\ results' = [results EXCEPT ![cur] = "failed"]
              /\ failure' = [turn |-> step, by |-> "aitest_run"]
              /\ UNCHANGED <<result, nextId, asserted>>
    /\ UNCHANGED <<plan, messages, evals>>
    /\ UNCHANGED <<cur, step, sessionOver>>
    /\ UNCHANGED daemonVars
    /\ UNCHANGED parseVars
    /\ UNCHANGED historyVars
    /\ UNCHANGED pathVars
    /\ UNCHANGED reportVars
    /\ UNCHANGED inputVars

\* result = await aitest_run(agent, prompt, messages=messages): the agent is
\* sent the prompt with the current `messages`; the call returns a result,
\* or raises (its time limit) and the test fails
AitestRun ==
    /\ phase = "body"
    /\ stepsRun' = stepsRun + 1
    /\ \E returned \in BOOLEAN :
         IF returned
         THEN /\ result' = nextId
              /\ sent' = Append(sent, [passed |-> messages, returned |-> nextId])
              /\ nextId' = nextId + 1
              /\ asserted' = 0
              /\ phase' = "validate"
              /\ UNCHANGED <<results, failure>>
         ELSE /\ sent' = Append(sent, [passed |-> messages, returned |-> 0])
              /\ phase' = "idle"
              /\ results' = [results EXCEPT ![cur] = "failed"]
              /\ failure' = [turn |-> step, by |-> "aitest_run"]
              /\ UNCHANGED <<result, nextId, asserted>>
    /\ UNCHANGED <<plan, messages, evals>>
    /\ UNCHANGED <<cur, step, sessionOver>>
    /\ UNCHANGED daemonVars
    /\ UNCHANGED parseVars
    /\ UNCHANGED historyVars
    /\ UNCHANGED pathVars
    /\ UNCHANGED reportVars
    /\ UNCHANGED inputVars

\* variant of AssertResult: a failed assertion ends the whole run
\* (pytest.exit) and the tests that did not run yet are never set up
AssertResultEndsRun ==
    /\ phase = "validate"
    /\ asserted < plan[step]
    /\ evals' = Append(evals, [turn |-> step, seen |-> result])
    /\ asserted' = asserted + 1
    /\ \E holds \in BOOLEAN :
         IF holds
         THEN UNCHANGED <<phase, results, failure, sessionOver>>
         ELSE /\ phase' = "idle"
              /\ results' = [results EXCEPT ![cur] = "failed"]
              /\ failure' = [turn |-> step, by |-> "assert"]
              /\ sessionOver' = TRUE
    /\ UNCHANGED <<plan, messages, result, sent, nextId>>
    /\ UNCHANGED <<cur, step, stepsRun>>
    /\ UNCHANGED daemonVars
    /\ UNCHANGED parseVars
    /\ UNCHANGED historyVars
    /\ UNCHANGED pathVars
    /\ UNCHANGED reportVars
    /\ UNCHANGED inputVars

\* variant of AssertResult: a failed assertion is recorded and the test goes on
\* (a soft assertion)
AssertResultKeepsGoing ==
    /\ phase = "validate"
    /\ asserted < plan[step]
    /\ evals' = Append(evals, [turn |-> step, seen |-> result])
    /\ asserted' = asserted + 1
    /\ \E holds \in BOOLEAN :
         IF holds
         THEN UNCHANGED <<results, failure>>
         ELSE /\ results' = [results EXCEPT ![cur] = "failed"]
              /\ failure' = IF failure = NoFailure
                            THEN [turn |-> step, by |-> "assert"]
                            ELSE failure
    /\ UNCHANGED phase
    /\ UNCHANGED <<plan, messages, result, sent, nextId>>
    /\ UNCHANGED <<cur, step, stepsRun, sessionOver>>
    /\ UNCHANGED daemonVars
    /\ UNCHANGED parseVars
    /\ UNCHANGED historyVars
    /\ UNCHANGED pathVars
    /\ UNCHANGED reportVars
    /\ UNCHANGED inputVars

\* the next assertion after the call, applied to `result`: `assert
\* result.success`, assert_cli_exit_codes(result), ...; when it does not
\* hold it raises and the test fails
AssertResult ==
    /\ phase = "validate"
    /\ asserted < plan[step]
    /\ evals' = Append(evals, [turn |-> step, seen |-> result])
    /\ asserted' = asserted + 1
    /\ \E holds \in BOOLEAN :
         IF holds
         THEN UNCHANGED <<phase, results, failure>>
         ELSE /\ phase' = "idle"
              /\ results' = [results EXCEPT ![cur] = "failed"]
              /\ failure' = [turn |-> step, by |-> "assert"]
    /\ UNCHANGED <<plan, messages, result, sent, nextId>>
    /\ UNCHANGED <<cur, step, stepsRun, sessionOver>>
    /\ UNCHANGED daemonVars
    /\ UNCHANGED parseVars
    /\ UNCHANGED historyVars
    /\ UNCHANGED pathVars
    /\ UNCHANGED reportVars
    /\ UNCHANGED inputVars

\* variant of TurnDone: `messages = result.messages` and the next call are
\* placed before the remaining assertions of the turn
TurnDoneBeforeAsserts ==
    /\ phase = "validate"
    /\ asserted <= plan[step]
    /\ IF step < Len(plan)
       THEN /\ messages' = result
            /\ step' = step + 1
            /\ phase' = "body"
            /\ UNCHANGED results
       ELSE /\ asserted = plan[step]
            /\ phase' = "idle"
            /\ results' = [results EXCEPT ![cur] = "passed"]
            /\ UNCHANGED <<messages, step>>
    /\ UNCHANGED <<plan, result, asserted, sent, evals, failure, nextId>>
    /\ UNCHANGED <<cur, stepsRun, sessionOver>>
    /\ UNCHANGED daemonVars
    /\ UNCHANGED parseVars
    /\ UNCHANGED historyVars
    /\ UNCHANGED pathVars
    /\ UNCHANGED reportVars
    /\ UNCHANGED inputVars

\* every assertion of the turn held: `messages = result.messages` and the
\* next turn, or the end of the test function, which passes
TurnDone ==
    /\ phase = "validate"
    /\ asserted = plan[step]
    /\ IF step < Len(plan)
       THEN /\ messages' = result
            /\ step' = step + 1
            /\ phase' = "body"
            /\ UNCHANGED results
       ELSE /\ phase' = "idle"
            /\ results' = [results EXCEPT ![cur] = "passed"]
            /\ UNCHANGED <<messages, step>>
    /\ UNCHANGED <<plan, result, asserted, sent, evals, failure, nextId>>
    /\ UNCHANGED <<cur, stepsRun, sessionOver>>
    /\ UNCHANGED daemonVars
    /\ UNCHANGED parseVars
    /\ UNCHANGED historyVars
    /\ UNCHANGED pathVars
    /\ UNCHANGED reportVars
    /\ UNCHANGED inputVars

RunnerNext ==
    \/ TestSetup
    \/ TestFunctionCalled
    \/ AitestRun
    \/ AssertResult
    \/ TurnDone

RunnerSpec == RunnerInit /\ [][RunnerNext]_vars

(***************************************************************************)
(* Properties of the cli_daemon fixture and the session.                   *)
(***************************************************************************)

\* C1: stop(), the teardown half of cli_daemon, never propagates an
\* exception, whatever the stop command, the wait for the natural exit and
\* the reap wait after the forced kill do.
StopNeverRaises == pc /= "teardown_raised"

\* C2: when no probe within MaxAttempts reports ready, the start-up error is
\* raised and, at that moment, the launched process has been killed and its
\* death has been confirmed (its exit was observed, not only requested).
StartupErrorConfirmsKill ==
    pc = "startup_failed" =>
        /\ killSent
        /\ procState = "exited"
        /\ returncode

\* C3: when the first ready observation is at probe k (1 <= k <= MaxAttempts),
\* the loop ends in success after exactly k probes and k-1 sleeps, and no
\* probe or sleep follows the ready one.
ReadyAfterExactlyKProbes ==
    readyAt /= 0 =>
        /\ readyAt \in 1..MaxAttempts
        /\ probes = readyAt
        /\ sleeps = readyAt - 1
        /\ Lifecycle \in {"ready", "stopping", "stopped"}

\* three probes not ready, the fourth ready: 4 probes, 3 sleeps
ReadyAtFourthProbe == readyAt = 4 /\ probes = 4 /\ sleeps = 3 /\ pc = "stopped"

\* C4: when the executable does not exist, the fixture fails with the launch
\* error before any process is spawned: Popen is not called, no process
\* exists and no status probe is made.
MissingExeNeverSpawns ==
    ~exeExists =>
        /\ spawnAttempts = 0
        /\ launches = 0
        /\ procState = "none"
        /\ probes = 0
        /\ pc \in {"unrequested", "resolve", "launch_error"}

MissingExeLaunchError == ~exeExists /\ pc = "launch_error" /\ fixtureCalls = 1

\* C5: the lifecycle only follows unstarted -> starting -> (ready | failed)
\* and ready -> stopping -> stopped; failed and stopped are left by no step,
\* and a status probe is made only while starting, after the launch.
LifecycleEdges ==
    {<<"unstarted", "starting">>, <<"starting", "ready">>,
     <<"starting", "failed">>, <<"ready", "stopping">>,
     <<"stopping", "stopped">>}

LifecycleFollowsStateMachine ==
    [][/\ Lifecycle' /= Lifecycle => <<Lifecycle, Lifecycle'>> \in LifecycleEdges
       /\ probes' /= probes => (Lifecycle = "starting" /\ launches = 1)]_vars

LifecycleReachedStopped == Lifecycle = "stopped" /\ probes > 1

\* C6: once the fixture has yielded, its teardown eventually runs (the stop
\* command is issued), whatever number of tests failed or timed out.
TeardownEventuallyRuns == (pc = "yielded") ~> (stopCmds > 0)

TeardownAfterAllTestsFailed ==
    /\ stopCmds > 0
    /\ \A t \in Scenarios : results[t] = "failed"

\* C7: within one session the daemon is launched at most once and stopped at
\* most once, however many tests run.
AtMostOneLaunchAndStop ==
    /\ fixtureCalls <= 1
    /\ spawnAttempts <= 1
    /\ launches <= 1
    /\ stopCmds <= 1

OneLaunchManyTests ==
    /\ launches = 1
    /\ stopCmds = 1
    /\ \A t \in Scenarios : results[t] \in {"passed", "failed"}
    /\ stepsRun > NumScenarios

\* C8: no agent step of a CLI test is executed unless the fixture has
\* yielded after a ready probe; after a launch error or a start-up timeout
\* no test body runs and the start-up is not attempted again.
StepsOnlyWhenReady ==
    /\ phase \in {"body", "validate"} => Lifecycle = "ready"
    /\ stepsRun > 0 => readyAt /= 0
    /\ FixtureRaised =>
        /\ stepsRun = 0
        /\ fixtureCalls = 1
        /\ \A t \in Scenarios : results[t] \in {"pending", "error"}

AllTestsErrorAfterStartupFailure ==
    /\ pc = "startup_failed"
    /\ \A t \in Scenarios : results[t] = "error"

\* C9: whenever the loop reports ready, the process launched by this session
\* is alive: the ready verdict is never reached while it has already exited.
ReadyMeansLaunchedProcessAlive == readyAt /= 0 => aliveAtReady

(***************************************************************************)
(* Properties of _parse_cli_results.                                       *)
(***************************************************************************)
\* the record the parser is to yield for a text it cannot decode
ExpectedFailRecord(raw) ==
    [kind |-> "dict", num |-> 0, text |-> <<>>,
     items |-> <<[key |-> "exit_code",
                  val |-> [kind |-> "int", num |-> -1, text |-> <<>>, items |-> <<>>]],
                 [key |-> "stdout",
                  val |-> [kind |-> "str", num |-> 0, text |-> raw, items |-> <<>>]],
                 [key |-> "stderr",
                  val |-> [kind |-> "str", num |-> 0, text |-> <<>>, items |-> <<>>]]>>]

\* the excel_execute calls of the transcript whose result is the text raw
CallsWithResult(raw) ==
    {k \in DOMAIN transcript :
        /\ transcript[k].name = "excel_execute"
        /\ ~transcript[k].isNone
        /\ transcript[k].text = raw}

\* the records of the output equal to the fail record of raw
FailRecordsOf(raw) ==
    {j \in DOMAIN outputs : outputs[j] = ExpectedFailRecord(raw)}

Undecodable(raw) == JsonLoads(raw).status /= "ok"

\* C10 as stated: for every tool-result string that cannot be decoded, the
\* parser does not raise and yields a record {exit_code: -1, stdout: the raw
\* string, stderr: ""}.
UndecodableYieldsFailRecord ==
    parsePc /= "called" =>
        /\ parseError = "none"
        /\ \A k \in DOMAIN transcript :
             (/\ transcript[k].name = "excel_execute"
              /\ ~transcript[k].isNone
              /\ Undecodable(transcript[k].text))
             => Cardinality(FailRecordsOf(transcript[k].text))
                    = Cardinality(CallsWithResult(transcript[k].text))

\* C10 as amended: for every non-empty tool-result string that cannot be
\* decoded, the parser does not raise and yields one such record per call.
NonEmptyUndecodableYieldsFailRecord ==
    parsePc /= "called" =>
        /\ parseError = "none"
        /\ \A k \in DOMAIN transcript :
             (/\ transcript[k].name = "excel_execute"
              /\ ~transcript[k].isNone
              /\ transcript[k].text /= <<>>
              /\ Undecodable(transcript[k].text))
             => Cardinality(FailRecordsOf(transcript[k].text))
                    = Cardinality(CallsWithResult(transcript[k].text))

\* the text `{not valid json` is parsed into its fail record
MalformedTextParsed ==
    /\ parsePc = "returned"
    /\ transcript = <<ToolCall("excel_execute", FALSE, <<"{", "x">>)>>
    /\ outputs = <<ExpectedFailRecord(<<"{", "x">>)>>

Parsed == parsePc \in {"returned", "raised"}

\* the entries of the transcript made by excel_execute
ToolEntries == {k \in DOMAIN transcript : transcript[k].name = "excel_execute"}

\* those of them whose result is a non-empty string
NonEmptyToolEntries ==
    {k \in ToolEntries : ~transcript[k].isNone /\ transcript[k].text /= <<>>}

\* the record expected for a non-empty text: its decoded value, else the
\* fail record
ExpectedRecord(raw) ==
    IF Undecodable(raw) THEN ExpectedFailRecord(raw) ELSE JsonLoads(raw).value

\* C11 as stated: the parser yields exactly one record for every transcript
\* entry of excel_execute, whatever its raw result is (decodable, undecodable,
\* empty or absent).
OneRecordPerToolEntry ==
    Parsed => Len(outputs) = Cardinality(ToolEntries)

\* C11 as amended: the parser yields exactly one record for every entry of
\* excel_execute whose result is a non-empty string, in transcript order (the
\* k-th such entry gives the k-th record), and none for any other entry.
OneRecordPerNonEmptyToolEntry ==
    Parsed =>
        /\ parseError = "none"
        /\ Len(outputs) = Cardinality(NonEmptyToolEntries)
        /\ \A k \in NonEmptyToolEntries :
             outputs[Cardinality({m \in NonEmptyToolEntries : m <= k})]
                 = ExpectedRecord(transcript[k].text)

\* an undecodable entry followed by a decodable one, both kept in order
MixedEntriesParsedInOrder ==
    /\ Parsed
    /\ transcript = <<ToolCall("excel_execute", FALSE, <<"x">>),
                      ToolCall("excel_execute", FALSE, <<"0">>)>>
    /\ outputs = <<ExpectedFailRecord(<<"x">>), JInt(0)>>

(***************************************************************************)
(* Properties of assert_cli_exit_codes.                                    *)
(***************************************************************************)
ExitCodesChecked == lastCall = "assert_cli_exit_codes"

\* the entries of excel_execute whose result decodes to something that is
\* not a mapping: a number, a string, a list or null
NonMappingEntries ==
    {k \in NonEmptyToolEntries :
        /\ ~Undecodable(transcript[k].text)
        /\ JsonLoads(transcript[k].text).value.kind /= "dict"}

\* C12: when a tool result decodes to a value that is not a mapping, parsing
\* followed by the exit-code check ends in an AssertionError and in no other
\* exception.
NonMappingEndsInAssertionError ==
    (ExitCodesChecked /\ NonMappingEntries /= {})
        => verdict.raised = "AssertionError"

\* a record is a mapping
IsMapping(o) == o.kind = "dict"

\* a mapping that holds the key exit_code
HasExitCode(o) ==
    IsMapping(o) /\ \E n \in DOMAIN o.items : o.items[n].key = "exit_code"

\* a mapping whose exit_code is 0
HasZeroExitCode(o) ==
    /\ IsMapping(o)
    /\ \E n \in DOMAIN o.items :
         /\ o.items[n].key = "exit_code"
         /\ o.items[n].val = [kind |-> "int", num |-> 0, text |-> <<>>, items |-> <<>>]

\* the first record of the output that is not a mapping with exit_code 0
Offenders == {j \in DOMAIN outputs : ~HasZeroExitCode(outputs[j])}

FirstOffender == CHOOSE j \in Offenders : \A m \in Offenders : j <= m

\* C13 as stated, on records that are mappings: the check fails exactly when
\* there is no record or some record's exit_code is present and not zero; in
\* every other case, records without exit_code included, it passes.
FailsOnlyOnPresentNonZeroExitCode ==
    (ExitCodesChecked /\ \A j \in DOMAIN outputs : IsMapping(outputs[j])) =>
        (verdict.raised /= "none" <=>
            \/ outputs = <<>>
            \/ \E j \in DOMAIN outputs :
                 HasExitCode(outputs[j]) /\ ~HasZeroExitCode(outputs[j]))

\* C13 as amended: the check passes exactly when there is at least one record
\* and every record is a mapping whose exit_code is 0. Without a record it
\* fails with "No CLI executions recorded"; otherwise it fails at the first
\* record in transcript order that is not such a mapping, and when that
\* record is a mapping the AssertionError carries it.
PassesOnlyWhenEveryExitCodeIsZero ==
    ExitCodesChecked =>
        /\ verdict.raised = "none" <=> (outputs /= <<>> /\ Offenders = {})
        /\ outputs = <<>> =>
             /\ verdict.raised = "AssertionError"
             /\ verdict.msg = "No CLI executions recorded"
        /\ Offenders /= {} =>
             /\ verdict.record = outputs[FirstOffender]
             /\ IsMapping(outputs[FirstOffender]) =>
                  /\ verdict.raised = "AssertionError"
                  /\ verdict.msg = "CLI exit code not zero"

\* the check failed at a second record that has no exit_code, after a first
\* record with exit_code 0
FailedOnRecordWithoutExitCode ==
    /\ ExitCodesChecked
    /\ Len(outputs) = 2
    /\ HasZeroExitCode(outputs[1])
    /\ IsMapping(outputs[2]) /\ ~HasExitCode(outputs[2])
    /\ verdict.raised = "AssertionError"
    /\ verdict.record = outputs[2]

\* the records decoded from `{"exit_code": 0}` and `{"exit_code": 1}`
ExitZeroRecord ==
    [kind |-> "dict", num |-> 0, text |-> <<>>,
     items |-> <<[key |-> "exit_code",
                  val |-> [kind |-> "int", num |-> 0, text |-> <<>>, items |-> <<>>]]>>]

ExitOneRecord ==
    [kind |-> "dict", num |-> 0, text |-> <<>>,
     items |-> <<[key |-> "exit_code",
                  val |-> [kind |-> "int", num |-> 1, text |-> <<>>, items |-> <<>>]]>>]

ExitZeroText == <<"{", "exit_code:", "0", "}">>
ExitOneText == <<"{", "exit_code:", "1", "}">>

\* every entry of the transcript is an excel_execute call with one of the
\* two texts
OnlyExitCodeEntries ==
    \A k \in DOMAIN transcript :
        /\ transcript[k].name = "excel_execute"
        /\ ~transcript[k].isNone
        /\ transcript[k].text \in {ExitZeroText, ExitOneText}

\* C14: a result encoding a mapping with exit_code 0 decodes to a record
\* whose exit code is exactly 0; the exit-code check passes on a transcript
\* made only of such results and fails as soon as the transcript also holds
\* a result with exit_code 1, wherever it sits.
ExitCodeRoundTrip ==
    (Parsed /\ transcript /= <<>> /\ OnlyExitCodeEntries) =>
        /\ \A k \in DOMAIN transcript :
             /\ transcript[k].text = ExitZeroText => outputs[k] = ExitZeroRecord
             /\ transcript[k].text = ExitOneText => outputs[k] = ExitOneRecord
        /\ ExitCodesChecked =>
             IF \E k \in DOMAIN transcript : transcript[k].text = ExitOneText
             THEN verdict.raised = "AssertionError"
             ELSE verdict.raised = "none"

\* the check failed on an exit_code 1 that follows an exit_code 0
FailedOnSecondExitCode ==
    /\ ExitCodesChecked
    /\ Len(transcript) = 2
    /\ OnlyExitCodeEntries
    /\ transcript[1].text = ExitZeroText
    /\ transcript[2].text = ExitOneText
    /\ outputs = <<ExitZeroRecord, ExitOneRecord>>
    /\ verdict.raised = "AssertionError"
    /\ verdict.record = ExitOneRecord

ArgsChecked == lastCall = "assert_cli_args_contain"

\* tok is a substring of str: str is some prefix, then tok, then some suffix
OccursIn(tok, str) ==
    \E from \in 0..Len(str) : \E upto \in from..Len(str) :
        /\ upto - from = Len(tok)
        /\ \A n \in 1..Len(tok) : str[from + n] = tok[n]

\* the argument string of an entry, empty without "args"
ArgString(k) == IF transcript[k].hasArgs THEN transcript[k].args ELSE <<>>

\* C16: the args check passes if and only if at least one excel_execute call
\* of the turn has an argument string that contains the token as a substring;
\* in particular it fails when the turn has no excel_execute call.
ArgsCheckPassesIffSomeCallHoldsToken ==
    ArgsChecked =>
        /\ verdict.raised \in {"none", "AssertionError"}
        /\ verdict.raised = "none" <=>
             \E k \in ToolEntries : OccursIn(token, ArgString(k))
        /\ ToolEntries = {} => verdict.raised = "AssertionError"

\* the check passed on the second call, whose args hold the token after
\* another character
TokenFoundInsideSecondCall ==
    /\ ArgsChecked
    /\ verdict.raised = "none"
    /\ token = <<"a">>
    /\ Len(transcript) = 2
    /\ transcript[1].name = "excel_execute" /\ ArgString(1) = <<"b">>
    /\ transcript[2].name = "excel_execute" /\ ArgString(2) = <<"b", "a">>

(***************************************************************************)
(* Properties of the body of a multi-turn test function.                   *)
(***************************************************************************)
\* the assertions evaluated so far at turn k
EvalsOfTurn(k) == {e \in DOMAIN evals : evals[e].turn = k}

\* C17: when an assertion of turn n fails, no prompt of a later turn is ever
\* sent to the agent (the calls made stop at turn n, the test is over), and
\* the failure reported is the one raised at turn n, by the assertion
\* evaluated last.
FailedAssertionEndsTheTest ==
    failure.by = "assert" =>
        /\ Len(sent) = failure.turn
        /\ evals /= <<>>
        /\ evals[Len(evals)].turn = failure.turn
        /\ phase \in {"idle", "setup"}
        /\ phase = "idle" => results[cur] = "failed"

\* a test of two turns failed at an assertion of its first turn and its
\* second prompt was not sent
FirstTurnFailedSecondNotSent ==
    /\ failure = [turn |-> 1, by |-> "assert"]
    /\ Len(plan) = 2
    /\ Len(sent) = 1
    /\ phase = "idle"
    /\ results[cur] = "failed"

\* C18: the aitest_run call of turn n + 1 never begins before every
\* assertion that follows the call of turn n has been evaluated on its
\* result.
NextTurnAfterAllAssertions ==
    \A n \in DOMAIN sent : \A k \in 1..(n - 1) :
        /\ Cardinality(EvalsOfTurn(k)) = plan[k]
        /\ \A e \in EvalsOfTurn(k) : evals[e].seen = sent[k].returned

\* the second call was made after the two assertions of the first turn
SecondTurnAfterTwoAssertions ==
    /\ Len(sent) = 2
    /\ plan[1] = 2
    /\ Cardinality(EvalsOfTurn(1)) = 2
    /\ EvalsOfTurn(2) = {}

\* C19: the messages passed to the first turn are None; the messages passed
\* to turn n + 1 are those of the result turn n returned, and never those of
\* an earlier turn or of another test.
MessagesCarriedFromPreviousTurn ==
    \A n \in DOMAIN sent :
        IF n = 1
        THEN sent[n].passed = None
        ELSE /\ sent[n - 1].returned /= 0
             /\ sent[n].passed = sent[n - 1].returned

\* the second test of the session passed the messages of its own first turn
\* to its second turn
SecondTestCarriedItsOwnMessages ==
    /\ cur = 2
    /\ results[1] = "passed"
    /\ Len(sent) = 2
    /\ sent[1].passed = None
    /\ sent[1].returned > 1
    /\ sent[2].passed = sent[1].returned

\* C20: every assertion evaluated at turn n is applied to the result that
\* the call of turn n returned, and to no result of an earlier turn.
AssertionsSeeTheirTurnsResult ==
    \A e \in DOMAIN evals :
        /\ evals[e].turn \in DOMAIN sent
        /\ evals[e].seen = sent[evals[e].turn].returned
        /\ \A k \in 1..(evals[e].turn - 1) : evals[e].seen /= sent[k].returned

\* an assertion of the second turn was applied to the second result
SecondTurnAssertedOnSecondResult ==
    /\ Len(sent) = 2
    /\ evals /= <<>>
    /\ evals[Len(evals)].turn = 2
    /\ evals[Len(evals)].seen = sent[2].returned
    /\ sent[2].returned /= sent[1].returned

(***************************************************************************)
(* Properties of the run as a whole.                                       *)
(***************************************************************************)
\* a test was set up after the fixture had failed to bring the daemon to
\* ready within its 20 probes
StartupFailureSeen(marks) ==
    /\ pc = "startup_failed"
    /\ \E f \in failureLog : f.cause = "setup" /\ f.marked \in marks

\* an assertion on a result failed in some test
ValidatorFailureSeen(marks) ==
    \E f \in failureLog : f.cause = "assert" /\ f.marked \in marks

\* C21 as stated: the run ends with a non-zero exit status whenever a test
\* had a validator fail or the daemon failed to become ready within its
\* start-up budget, tests marked xfail (non-strict) included.
AnyFailureGivesNonZeroExit ==
    (SessionDone /\ (ValidatorFailureSeen(BOOLEAN) \/ StartupFailureSeen(BOOLEAN)))
        => ExitStatus /= 0

\* C21 as amended: the run ends with a non-zero exit status whenever a test
\* that is not marked xfail had a validator fail or was set up after the
\* daemon failed to become ready.
UnmarkedFailureGivesNonZeroExit ==
    (SessionDone /\ (ValidatorFailureSeen({FALSE}) \/ StartupFailureSeen({FALSE})))
        => ExitStatus /= 0

\* the run ended after a validator failed in a test marked xfail and in one
\* that is not
RunEndedAfterBothKindsOfFailure ==
    /\ SessionDone
    /\ ValidatorFailureSeen({TRUE})
    /\ ValidatorFailureSeen({FALSE})
    /\ ExitStatus = 1

\* an assertion of the test being run has just failed
AssertionJustFailed == failure' /= failure /\ failure'.by = "assert"

PathsAreDistinct ==
    \A m \in DOMAIN paths : \A n \in DOMAIN paths : m /= n => paths[m] /= paths[n]

\* two calls with the same prefix, suffix and directory returned two paths
TwoPathsForOnePrefix ==
    /\ Len(paths) = 2
    /\ SubSeq(paths[1], 1, 4) = <<"T", "/", "a", "-">>
    /\ SubSeq(paths[2], 1, 4) = <<"T", "/", "a", "-">>
    /\ paths[1][Len(paths[1])] = paths[2][Len(paths[2])]
    /\ Len(paths[1]) = Len(paths[2])

(***************************************************************************)
(* Properties of the teardown and of the start-up loop of cli_daemon.      *)
(***************************************************************************)
\* the calls of the teardown, in call order
StopCalls ==
    SelectSeq(callLog, LAMBDA c : c.at \in {"stop_cmd", "wait_exit", "kill", "reap"})

\* the stop command or the wait for the exit did not complete in time
StepFailed(c) ==
    \/ c.call = "stop" /\ c.out \in {"timeout", "oserror"}
    \/ c.call = "wait" /\ c.at = "wait_exit" /\ c.out = "timeout"

StopStepFailed == \E k \in DOMAIN StopCalls : StepFailed(StopCalls[k])

KillIssued == \E k \in DOMAIN StopCalls : StopCalls[k].call = "kill"

TeardownOver == pc \in {"stopped", "teardown_raised"}

\* C24: the teardown first runs the stop command and then waits for the
\* exit; the process is killed if and only if one of the two did not complete
\* in time (or the stop command raised OSError), the kill is followed by the
\* reap wait, and when both complete in time no kill is issued.
KillIffAStopStepFailed ==
    /\ StopCalls /= <<>> => StopCalls[1].call = "stop"
    /\ \A k \in DOMAIN StopCalls :
         /\ StopCalls[k].at = "wait_exit" =>
               k = 2 /\ StopCalls[1] = [at |-> "stop_cmd", call |-> "stop", out |-> "completed"]
         /\ StopCalls[k].call = "kill" => k > 1 /\ StepFailed(StopCalls[k - 1])
         /\ StopCalls[k].at = "reap" => k > 1 /\ StopCalls[k - 1].call = "kill"
    /\ TeardownOver =>
         /\ KillIssued <=> StopStepFailed
         /\ \A k \in DOMAIN StopCalls :
              StopCalls[k].call = "kill" =>
                  /\ k + 1 = Len(StopCalls)
                  /\ StopCalls[k + 1].call = "wait"
                  /\ StopCalls[k + 1].at = "reap"
         /\ ~StopStepFailed =>
              /\ Len(StopCalls) = 2
              /\ StopCalls[2] = [at |-> "wait_exit", call |-> "wait", out |-> "exited"]
              /\ kills = 0

\* the stop command completed, the wait timed out, the kill and the reap
\* followed
KilledAfterWaitTimeout ==
    /\ pc = "stopped"
    /\ Len(callLog) = 4
    /\ callLog[1].out = "completed"
    /\ callLog[2] = [at |-> "wait_exit", call |-> "wait", out |-> "timeout"]
    /\ callLog[3].call = "kill"
    /\ callLog[4] = [at |-> "reap", call |-> "wait", out |-> "exited"]

\* C28: a status probe counts as ready if and only if it completed with exit
\* code 0 and its output holds the marker; every other probe (no marker, exit
\* code not 0, timeout, OSError) raises nothing and polling goes on.
ReadyIffExitCodeZeroAndMarker ==
    [][probes' = probes + 1 =>
         /\ (pc' = "yielded") <=>
               (lastProbe'.kind = "completed" /\ lastProbe'.rc = 0 /\ lastProbe'.marker)
         /\ pc' /= "yielded" => (pc' = "sleep" /\ kills' = kills /\ i' = i)]_vars

\* a probe with exit code 0 and no marker was taken as not ready
ExitCodeZeroWithoutMarkerNotReady ==
    /\ pc = "sleep"
    /\ lastProbe = [kind |-> "completed", rc |-> 0, marker |-> FALSE]

\* C29: when the loop is exhausted, exactly MaxAttempts probes were made and
\* a sleep followed each of them, the last included; only then is the process
\* killed, once, and the start-up error raised after the kill.
ExhaustionAfterAllProbesAndSleeps ==
    /\ pc \in {"exhausted", "raise", "startup_failed"} =>
         /\ probes = MaxAttempts
         /\ sleeps = MaxAttempts
         /\ lastProbe.kind /= "none"
    /\ pc = "probe" => sleeps = probes
    /\ pc = "sleep" => sleeps + 1 = probes
    /\ pc \in {"probe", "sleep", "exhausted"} => kills = 0
    /\ pc \in {"raise", "startup_failed"} =>
         /\ kills = 1
         /\ callLog = <<[at |-> "exhausted", call |-> "kill", out |-> "sent"]>>

\* the start-up error was raised after twenty probes and one kill
StartupErrorAfterTwentyProbes ==
    /\ pc = "startup_failed"
    /\ probes = MaxAttempts
    /\ sleeps = MaxAttempts
    /\ kills = 1

\* C30: the process is killed only when the start-up loop is exhausted or
\* when a step of the teardown failed: never while the fixture has yielded and
\* tests run, and in the teardown never before the stop command was run.
KillOnlyOnExhaustionOrStopFailure ==
    /\ [][kills' > kills =>
            \/ pc = "exhausted"
            \/ /\ pc = "kill"
               /\ stopCmds >= 1
               /\ callLog /= <<>>
               /\ StepFailed(callLog[Len(callLog)])]_vars
    /\ [](Lifecycle = "ready" => kills = 0)
    /\ [](pc = "kill" => stopCmds >= 1)

\* the stop command timed out and the process was killed once
KilledOnceAfterStopTimeout ==
    /\ pc = "stopped"
    /\ kills = 1
    /\ stopCmds = 1
    /\ callLog[1] = [at |-> "stop_cmd", call |-> "stop", out |-> "timeout"]

\* C25: the start-up loop and the teardown end whatever the daemon does
\* (never ready, probe or stop command that hangs until its timeout, process
\* that never exits): the loop after at most MaxAttempts probes, the teardown
\* after at most the stop command, the wait, the kill and the reap.
StartupAndTeardownEnd ==
    /\ <>[](pc \notin {"probe", "sleep", "exhausted", "raise",
                        "stop_cmd", "wait_exit", "kill", "reap"})
    /\ [](probes <= MaxAttempts /\ sleeps <= MaxAttempts)
    /\ [](Len(StopCalls) <= 4)

\* the teardown ended although the stop command hung and the process never
\* exited
TeardownEndedWithProcessRunning ==
    /\ pc = "teardown_raised"
    /\ procState = "running"
    /\ callLog[1] = [at |-> "stop_cmd", call |-> "stop", out |-> "timeout"]
    /\ Len(callLog) = 3

(***************************************************************************)
(* Properties of the validators as a whole.                                *)
(***************************************************************************)
\* the verdict of assert_cli_exit_codes on the result the test was given
ExitCodesVerdictOnGiven ==
    LET r == ParseCliResults(given)
    IN  IF r.raised /= "none"
        THEN Raise(r.raised, "", JNull)
        ELSE ExitCodesVerdict(r.outputs)

====
